---------------------------- MODULE Spec2Model ----------------------------
(***************************************************************************)
(* Streaming translator of arhangel66/live-translate: the stability-window *)
(* detector, the delta computer and the per-utterance session that         *)
(* src/agent.py drives from the user_input_transcribed callback.           *)
(*                                                                         *)
(* A string is a sequence of one-character strings, so that strip(),       *)
(* split() and " ".join() are computed and not assumed.                    *)
(***************************************************************************)
EXTENDS Integers, Sequences, FiniteSets, TLC

VARIABLES
    stability_threshold,  \* StreamingTranslator.stability_threshold
    min_words_for_tts,    \* StreamingTranslator.min_words_for_tts
    interim_history,      \* StreamingTranslator.interim_history
    last_stable_source,   \* StreamingTranslator.last_stable_source
    translated_prefix,    \* StreamingTranslator.translated_prefix
    spoken_word_count,    \* StreamingTranslator.spoken_word_count
    speech_start_time,    \* StreamingTranslator.speech_start_time
    first_audio_time,     \* StreamingTranslator.first_audio_time
    tasks,                \* the process_and_speak tasks created so far
    out,                  \* the session.say calls of the last step
    ev,                   \* the last step taken: which handler, which task
    utt,                  \* number of reset() calls so far (utterance index)
    lastCommit            \* task whose response last_stable_source holds

vars == << stability_threshold, min_words_for_tts, interim_history,
           last_stable_source, translated_prefix, spoken_word_count,
           speech_start_time, first_audio_time, tasks, out, ev, utt,
           lastCommit >>

config == << stability_threshold, min_words_for_tts >>

session == << interim_history, last_stable_source, translated_prefix,
              spoken_word_count, speech_start_time, first_audio_time >>

-----------------------------------------------------------------------------
(* Bounds of the model *)

MaxInterims == 3   \* non-empty interim events in one run
MaxFinals == 1     \* non-empty final events in one run
MaxThreshold == 3  \* largest stability_threshold of the detector's runs
MaxMinWords == 2   \* largest min_words_for_tts of the configurations

-----------------------------------------------------------------------------
(* Strings *)

SP == " "
QUOTE == "\""
None == "None"
Now == "t"         \* a value of time.time(): truthy and not None

RECURSIVE lstrip(_)
lstrip(s) ==
    IF s # << >> /\ Head(s) = SP THEN lstrip(Tail(s)) ELSE s

RECURSIVE rstrip(_)
rstrip(s) ==
    IF s # << >> /\ s[Len(s)] = SP THEN rstrip(SubSeq(s, 1, Len(s) - 1)) ELSE s

strip(s) == rstrip(lstrip(s))

RECURSIVE SplitFrom(_, _, _)
SplitFrom(s, word, acc) ==
    IF s = << >>
    THEN IF word = << >> THEN acc ELSE Append(acc, word)
    ELSE IF Head(s) = SP
         THEN SplitFrom(Tail(s), << >>,
                        IF word = << >> THEN acc ELSE Append(acc, word))
         ELSE SplitFrom(Tail(s), Append(word, Head(s)), acc)

split(s) == SplitFrom(s, << >>, << >>)

RECURSIVE join(_)
join(ws) ==
    IF ws = << >> THEN << >>
    ELSE IF Len(ws) = 1 THEN ws[1]
    ELSE ws[1] \o << SP >> \o join(Tail(ws))

\* words[n:] of Python, n >= 0
SliceFrom(ws, n) == SubSeq(ws, n + 1, Len(ws))

\* words[-n:] of Python, n >= 1
LastN(ws, n) == SubSeq(ws, IF Len(ws) > n THEN Len(ws) - n + 1 ELSE 1, Len(ws))

-----------------------------------------------------------------------------
(* Inputs: transcripts of the recognizer and answers of the backend *)

A == << "a" >>
B == << "b" >>
X == << "x" >>
Y == << "y" >>
Z == << "z" >>

Padded(s) == << SP >> \o s \o << SP >>

\* the words of the interims: growth (a, a b), a shorter interim (a b, a)
\* and a revision of the first word that keeps the second (a b, b b)
InterimWords == { << A >>, << A, B >>, << B, B >> }
InterimTranscripts ==
    { join(ws) : ws \in InterimWords }
    \cup { << >>, << SP >>, Padded(A) }

\* the same, and an interim with two spaces between its words
DetectorTranscripts ==
    InterimTranscripts \cup { A \o << SP, SP >> \o B }

FinalWords == { << X >>, << X, Y >>, << X, Y, Z >> }
FinalTranscripts ==
    { join(ws) : ws \in FinalWords }
    \cup { << >>, << SP >>, Padded(join(<< X, Y >>)) }

\* message.content of the backend's answer
Contents ==
    { join(ws) : ws \in FinalWords }
    \cup { << >>,
           Padded(<< QUOTE >> \o join(<< X, Y >>) \o << QUOTE >>) }

-----------------------------------------------------------------------------
(* Stability window detector: StreamingTranslator.get_stable_prefix *)

\* the all(...) of the loop body, for the word at 1-based index i
is_stable(recent, i, word) ==
    \A k \in 1..Len(recent) :
        /\ Len(split(recent[k])) > i - 1
        /\ split(recent[k])[i] = word

\* the loop without its break: the last stable index wins
RECURSIVE stable_count_no_break(_, _, _)
stable_count_no_break(words, recent, i) ==
    IF i > Len(words) THEN 0
    ELSE LET rest == stable_count_no_break(words, recent, i + 1) IN
         IF rest > 0 THEN rest
         ELSE IF is_stable(recent, i, words[i]) THEN i ELSE 0

\* the for loop: stable_count advances until the first unstable index
RECURSIVE stable_count(_, _, _)
stable_count(words, recent, i) ==
    IF i > Len(words) THEN i - 1
    ELSE IF is_stable(recent, i, words[i])
         THEN stable_count(words, recent, i + 1)
         ELSE i - 1

\* a window one observation too deep
get_stable_prefix_deep_window(history, current_text) ==
    LET words == split(current_text) IN
    IF Len(history) < stability_threshold
    THEN IF translated_prefix # << >>
         THEN IF Len(history) >= 1 THEN current_text ELSE << >>
         ELSE << >>
    ELSE LET recent == LastN(history, stability_threshold + 1) IN
         join(SubSeq(words, 1, stable_count(words, recent, 1)))

\* a detector that never relaxes the threshold
get_stable_prefix_never_relaxed(history, current_text) ==
    LET words == split(current_text) IN
    IF Len(history) < stability_threshold
    THEN << >>
    ELSE LET recent == LastN(history, stability_threshold) IN
         join(SubSeq(words, 1, stable_count(words, recent, 1)))

\* history is self.interim_history at the call (the current text appended)
get_stable_prefix(history, current_text) ==
    LET words == split(current_text) IN
    IF Len(history) < stability_threshold
    THEN IF translated_prefix # << >>
         THEN IF Len(history) >= 1 THEN current_text ELSE << >>
         ELSE << >>
    ELSE LET recent == LastN(history, stability_threshold) IN
         join(SubSeq(words, 1, stable_count(words, recent, 1)))

-----------------------------------------------------------------------------
(* Delta computer: the part of translate_delta after the backend answered *)

unquote(full) ==
    IF full # << >> /\ Head(full) = QUOTE /\ full[Len(full)] = QUOTE
    THEN SubSeq(full, 2, Len(full) - 1)
    ELSE full

\* full_words[len(prev_words) + 1 :]
translate_delta_skips_a_word(content, previous_translation) ==
    LET full_translation == unquote(strip(content)) IN
    [ delta |->
        IF previous_translation # << >>
        THEN join(SliceFrom(split(full_translation),
                            Len(split(previous_translation)) + 1))
        ELSE full_translation,
      full_translation |-> full_translation ]

translate_delta(content, previous_translation) ==
    LET full_translation == unquote(strip(content)) IN
    [ delta |->
        IF previous_translation # << >>
        THEN join(SliceFrom(split(full_translation),
                            Len(split(previous_translation))))
        ELSE full_translation,
      full_translation |-> full_translation ]

-----------------------------------------------------------------------------
(* Final reconciliation: StreamingTranslator.process_final *)

\* final_words[spoken_word_count + 1 :]
process_final_skips_a_word(translated_text) ==
    LET text == strip(translated_text)
        remaining_words == SliceFrom(split(text), spoken_word_count + 1)
    IN  IF text = << >> THEN None
        ELSE IF remaining_words # << >> THEN join(remaining_words)
        ELSE None

process_final(translated_text) ==
    LET text == strip(translated_text)
        remaining_words == SliceFrom(split(text), spoken_word_count)
    IN  IF text = << >> THEN None
        ELSE IF remaining_words # << >> THEN join(remaining_words)
        ELSE None

\* a reset that forgets the spoken word count
reset_keeps_spoken_word_count ==
    /\ interim_history' = << >>
    /\ last_stable_source' = << >>
    /\ translated_prefix' = << >>
    /\ UNCHANGED spoken_word_count
    /\ speech_start_time' = None
    /\ first_audio_time' = None

reset ==
    /\ interim_history' = << >>
    /\ last_stable_source' = << >>
    /\ translated_prefix' = << >>
    /\ spoken_word_count' = 0
    /\ speech_start_time' = None
    /\ first_audio_time' = None

-----------------------------------------------------------------------------
(* The session: on_user_state, on_transcribed and process_and_speak *)

SpeakAction(text, interruptible) ==
    [ text |-> text, interruptible |-> interruptible ]

Step(kind, id, text) == [ kind |-> kind, id |-> id, text |-> text ]

\* a task that returned or died: nothing of it is read again
Finished ==
    [ pc |-> "done", text |-> << >>, current_source |-> << >>,
      previous_source |-> << >>, previous_translation |-> << >>, utt |-> 0,
      call_utt |-> 0 ]

\* a task that an exception of the backend call ended
Raised == [ Finished EXCEPT !.pc = "raised" ]

Init ==
    /\ stability_threshold = 2
    /\ min_words_for_tts = 2
    /\ interim_history = << >>
    /\ last_stable_source = << >>
    /\ translated_prefix = << >>
    /\ spoken_word_count = 0
    /\ speech_start_time = None
    /\ first_audio_time = None
    /\ tasks = << >>
    /\ out = << >>
    /\ ev = Step("init", 0, << >>)
    /\ utt = 0
    /\ lastCommit = 0

on_user_state ==
    /\ speech_start_time' = Now
    /\ out' = << >>
    /\ ev' = Step("speaking", 0, << >>)
    /\ UNCHANGED << config, interim_history, last_stable_source,
                    translated_prefix, spoken_word_count, first_audio_time,
                    tasks, utt, lastCommit >>

\* on_transcribed, is_final false: the task is created, it runs later
on_transcribed_interim(transcript) ==
    LET text == strip(transcript) IN
    /\ out' = << >>
    /\ IF text = << >>
       THEN /\ ev' = Step("interim_empty", 0, << >>)
            /\ UNCHANGED tasks
       ELSE /\ Len(tasks) < MaxInterims
            /\ tasks' = Append(tasks,
                   [ pc |-> "created", text |-> text,
                     current_source |-> << >>, previous_source |-> << >>,
                     previous_translation |-> << >>, utt |-> utt,
                     call_utt |-> 0 ])
            /\ ev' = Step("interim", Len(tasks) + 1, << >>)
    /\ UNCHANGED << config, session, utt, lastCommit >>

\* a final handler without the early return for an empty transcript
on_transcribed_final_resets_on_empty(transcript) ==
    LET text == strip(transcript)
        remaining == process_final(text)
    IN
    /\ utt < MaxFinals
    /\ out' = IF remaining # None /\ remaining # << >>
              THEN << SpeakAction(remaining, FALSE) >>
              ELSE << >>
    /\ reset
    /\ utt' = utt + 1
    /\ lastCommit' = 0
    /\ ev' = Step(IF text = << >> THEN "final_empty" ELSE "final", 0, text)
    /\ UNCHANGED << config, tasks >>

\* on_transcribed, is_final true: process_final, say, reset
on_transcribed_final(transcript) ==
    LET text == strip(transcript)
        remaining == process_final(text)
    IN
    IF text = << >>
    THEN /\ out' = << >>
         /\ ev' = Step("final_empty", 0, << >>)
         /\ UNCHANGED << config, session, tasks, utt, lastCommit >>
    ELSE /\ utt < MaxFinals
         /\ out' = IF remaining # None /\ remaining # << >>
                   THEN << SpeakAction(remaining, FALSE) >>
                   ELSE << >>
         /\ reset
         /\ utt' = utt + 1
         /\ lastCommit' = 0
         /\ ev' = Step("final", 0, text)
         /\ UNCHANGED << config, tasks >>

\* interims processed one after the other: a task's first step waits for
\* the backend calls of the tasks before it
process_interim_start_waits_for_call(i) ==
    LET text == strip(tasks[i].text)
        history == Append(interim_history, text)
        stable == get_stable_prefix(history, text)
    IN
    /\ i \in 1..Len(tasks)
    /\ tasks[i].pc = "created"
    /\ \A j \in 1..(i - 1) : tasks[j].pc \notin { "created", "awaiting" }
    /\ out' = << >>
    /\ ev' = Step("start", i, << >>)
    /\ interim_history' = history
    /\ IF stable = << >> \/ stable = last_stable_source
       THEN tasks' = [tasks EXCEPT ![i] = Finished]
       ELSE tasks' = [tasks EXCEPT ![i] =
               [ @ EXCEPT !.pc = "awaiting",
                          !.current_source = stable,
                          !.previous_source = last_stable_source,
                          !.previous_translation = translated_prefix,
                          !.call_utt = utt ]]
    /\ UNCHANGED << config, last_stable_source, translated_prefix,
                    spoken_word_count, speech_start_time, first_audio_time,
                    utt, lastCommit >>

\* a first step that calls the backend again for the prefix it committed
process_interim_start_repeats_call(i) ==
    LET text == strip(tasks[i].text)
        history == Append(interim_history, text)
        stable == get_stable_prefix(history, text)
    IN
    /\ i \in 1..Len(tasks)
    /\ tasks[i].pc = "created"
    /\ \A j \in 1..(i - 1) : tasks[j].pc # "created"
    /\ out' = << >>
    /\ ev' = Step("start", i, << >>)
    /\ interim_history' = history
    /\ IF stable = << >>
       THEN tasks' = [tasks EXCEPT ![i] = Finished]
       ELSE tasks' = [tasks EXCEPT ![i] =
               [ @ EXCEPT !.pc = "awaiting",
                          !.current_source = stable,
                          !.previous_source = last_stable_source,
                          !.previous_translation = translated_prefix,
                                  !.call_utt = utt ]]
    /\ UNCHANGED << config, last_stable_source, translated_prefix,
                    spoken_word_count, speech_start_time, first_audio_time,
                    utt, lastCommit >>

\* process_and_speak from its first step to the await in process_interim
process_interim_start(i) ==
    LET text == strip(tasks[i].text)
        history == Append(interim_history, text)
        stable == get_stable_prefix(history, text)
    IN
    /\ i \in 1..Len(tasks)
    /\ tasks[i].pc = "created"
    /\ \A j \in 1..(i - 1) : tasks[j].pc # "created"
    /\ out' = << >>
    /\ ev' = Step("start", i, << >>)
    /\ IF text = << >>
       THEN /\ tasks' = [tasks EXCEPT ![i] = Finished]
            /\ UNCHANGED interim_history
       ELSE /\ interim_history' = history
            /\ IF stable = << >> \/ stable = last_stable_source
               THEN tasks' = [tasks EXCEPT ![i] = Finished]
               ELSE tasks' = [tasks EXCEPT ![i] =
                       [ @ EXCEPT !.pc = "awaiting",
                                  !.current_source = stable,
                                  !.previous_source = last_stable_source,
                                  !.previous_translation = translated_prefix,
                                  !.call_utt = utt ]]
    /\ UNCHANGED << config, last_stable_source, translated_prefix,
                    spoken_word_count, speech_start_time, first_audio_time,
                    utt, lastCommit >>

delta_word_count(delta) ==
    IF delta # << >> THEN Len(split(delta)) ELSE 0

not_enough_words_off_by_one(delta) ==
    delta_word_count(delta) < min_words_for_tts - 1

\* "Check if we have enough new words": the branch that returns None
not_enough_words(delta) ==
    delta_word_count(delta) < min_words_for_tts

\* the backend answered: the rest of translate_delta, of process_interim
\* and of process_and_speak, which run without another await
process_interim_response(i, content) ==
    LET t == tasks[i]
        result == translate_delta(content, t.previous_translation)
    IN
    /\ i \in 1..Len(tasks)
    /\ t.pc = "awaiting"
    /\ tasks' = [tasks EXCEPT ![i] = Finished]
    /\ IF not_enough_words(result.delta)
       THEN /\ out' = << >>
            /\ ev' = Step("discard", i, << >>)
            /\ UNCHANGED << last_stable_source, translated_prefix,
                            first_audio_time, spoken_word_count, lastCommit >>
       ELSE /\ last_stable_source' = t.current_source
            /\ translated_prefix' = result.full_translation
            /\ first_audio_time' =
                   IF first_audio_time = None /\ speech_start_time # None
                   THEN Now ELSE first_audio_time
            /\ lastCommit' = i
            /\ ev' = Step("commit", i, << >>)
            /\ IF result.delta # << >>
               THEN /\ out' = << SpeakAction(result.delta, TRUE) >>
                    /\ spoken_word_count' =
                           spoken_word_count + Len(split(result.delta))
               ELSE /\ out' = << >>
                    /\ UNCHANGED spoken_word_count
    /\ UNCHANGED << config, interim_history, speech_start_time, utt >>

\* an error path that commits the stable source it could not translate
process_interim_error_commits(i) ==
    /\ i \in 1..Len(tasks)
    /\ tasks[i].pc = "awaiting"
    /\ tasks' = [tasks EXCEPT ![i] = Raised]
    /\ last_stable_source' = tasks[i].current_source
    /\ out' = << >>
    /\ ev' = Step("error", i, << >>)
    /\ UNCHANGED << config, interim_history, translated_prefix,
                    spoken_word_count, speech_start_time, first_audio_time,
                    utt, lastCommit >>

\* the backend call raised: the exception ends the task
process_interim_error(i) ==
    /\ i \in 1..Len(tasks)
    /\ tasks[i].pc = "awaiting"
    /\ tasks' = [tasks EXCEPT ![i] = Raised]
    /\ out' = << >>
    /\ ev' = Step("error", i, << >>)
    /\ UNCHANGED << config, session, utt, lastCommit >>

Next ==
    \/ on_user_state
    \/ \E transcript \in InterimTranscripts : on_transcribed_interim(transcript)
    \/ \E transcript \in FinalTranscripts : on_transcribed_final(transcript)
    \/ \E i \in 1..MaxInterims : process_interim_start(i)
    \/ \E i \in 1..MaxInterims, content \in Contents :
           process_interim_response(i, content)
    \/ \E i \in 1..MaxInterims : process_interim_error(i)

Spec == Init /\ [][Next]_vars

-----------------------------------------------------------------------------
(* The detector alone: interims are recorded and their stable prefix is    *)
(* computed, for every stability_threshold up to MaxThreshold; no backend  *)
(* call is answered.                                                       *)

InitDetector ==
    /\ stability_threshold \in 1..MaxThreshold
    /\ min_words_for_tts = 2
    /\ interim_history = << >>
    /\ last_stable_source = << >>
    /\ translated_prefix = << >>
    /\ spoken_word_count = 0
    /\ speech_start_time = None
    /\ first_audio_time = None
    /\ tasks = << >>
    /\ out = << >>
    /\ ev = Step("init", 0, << >>)
    /\ utt = 0
    /\ lastCommit = 0

NextDetector ==
    \/ \E transcript \in DetectorTranscripts :
           on_transcribed_interim(transcript)
    \/ \E i \in 1..MaxInterims : process_interim_start(i)

SpecDetector == InitDetector /\ [][NextDetector]_vars

-----------------------------------------------------------------------------
(* What a step said *)

\* number of words handed to session.say by the step that led to the state
WordsSaid == IF out = << >> THEN 0 ELSE Len(split(out[1].text))

\* the step that led to the state was the answer of task ev.id's backend call
IsResponse(e) == e.kind \in { "commit", "discard" }

-----------------------------------------------------------------------------
(* C1: the words spoken for an utterance total the final's word count.     *)
(* At every final, spoken_word_count plus the number of words of the       *)
(* remainder that is spoken equals the number of words of the final        *)
(* transcript.                                                             *)
C1_SpokenWordsTotalFinal ==
    [][ ev'.kind = "final" =>
            spoken_word_count + WordsSaid' = Len(split(ev'.text)) ]_vars

(* C2: only the most recently issued request may commit. When the answer   *)
(* of a backend call arrives and a call of the same utterance that was     *)
(* issued later has already committed, the answer is discarded:            *)
(* last_stable_source, translated_prefix and spoken_word_count stay as     *)
(* they are and nothing is said.                                           *)
C2_StaleResponseDiscarded ==
    [][ ( /\ IsResponse(ev')
          /\ tasks[ev'.id].utt = utt
          /\ ev'.id < lastCommit )
        => ( /\ UNCHANGED << last_stable_source, translated_prefix,
                             spoken_word_count >>
             /\ out' = << >> ) ]_vars

(* C3: after a reset the first interim processed behaves as the very first *)
(* interim of a new session: the history holds that interim alone, no      *)
(* backend call is issued, nothing is said, last_stable_source and         *)
(* translated_prefix are empty and spoken_word_count is 0.                 *)
C3_FirstInterimAfterReset ==
    [][ ( /\ ev'.kind = "start"
          /\ utt >= 1
          /\ interim_history = << >> )
        => ( /\ interim_history' = << tasks[ev'.id].text >>
             /\ tasks'[ev'.id].pc = "done"
             /\ out' = << >>
             /\ last_stable_source' = << >>
             /\ translated_prefix' = << >>
             /\ spoken_word_count' = 0 ) ]_vars

(* C4: spoken_word_count decreases only at the reset of a final, where it  *)
(* becomes 0, and once it is 0 it leaves 0 only by a delta spoken for an   *)
(* interim of the current utterance.                                       *)
C4_SpokenCountPerUtterance ==
    [][ /\ spoken_word_count' < spoken_word_count
            => (ev'.kind = "final" /\ spoken_word_count' = 0)
        /\ (spoken_word_count = 0 /\ spoken_word_count' # 0)
            => (IsResponse(ev') /\ tasks[ev'.id].utt = utt) ]_vars

(* C5: a delta of fewer than min_words_for_tts words commits nothing: the  *)
(* step says nothing and leaves last_stable_source, translated_prefix and  *)
(* spoken_word_count as they were; and translated_prefix is changed by an  *)
(* interim's processing only in the answer step of a backend call whose    *)
(* delta has at least min_words_for_tts words.                             *)
C5_ShortDeltaCommitsNothing ==
    [][ /\ IsResponse(ev') =>
            \A content \in Contents :
              process_interim_response(ev'.id, content) =>
                  LET delta == translate_delta(
                                   content,
                                   tasks[ev'.id].previous_translation).delta
                      n == Len(split(delta))
                  IN  /\ n < min_words_for_tts =>
                            /\ out' = << >>
                            /\ UNCHANGED << last_stable_source,
                                            translated_prefix,
                                            spoken_word_count >>
                      /\ translated_prefix' # translated_prefix =>
                            n >= min_words_for_tts
        /\ (~IsResponse(ev') /\ ev'.kind # "final") =>
              UNCHANGED translated_prefix ]_vars

\* a one-word delta arrived after a commit and was dropped
C5_Witness ==
    /\ ev.kind = "discard"
    /\ translated_prefix = join(<< X, Y >>)
    /\ last_stable_source = join(<< A, B >>)
    /\ spoken_word_count = 2
    /\ out = << >>

(* C6: a failed backend call changes nothing of the session and says       *)
(* nothing; it ends its own task only, and the tasks of the other interims *)
(* go on: whenever a call has failed, a created task can still start and a *)
(* call in flight can still be answered.                                   *)
C6_FailedCallIsNoOp ==
    /\ [][ ev'.kind = "error" =>
              /\ UNCHANGED << session, config >>
              /\ out' = << >>
              /\ tasks' = [tasks EXCEPT ![ev'.id] = Raised] ]_vars
    /\ [] ( (\E i \in 1..Len(tasks) : tasks[i].pc = "raised") =>
              /\ (\E j \in 1..Len(tasks) : tasks[j].pc = "created")
                    => ENABLED (\E j \in 1..MaxInterims : process_interim_start(j))
              /\ (\E j \in 1..Len(tasks) : tasks[j].pc = "awaiting")
                    => ENABLED (\E j \in 1..MaxInterims, content \in Contents :
                                    process_interim_response(j, content)) )

\* after the call of one interim failed, a later interim committed and spoke
C6_Witness ==
    /\ ev.kind = "commit"
    /\ out # << >>
    /\ \E i \in 1..Len(tasks) : i < ev.id /\ tasks[i].pc = "raised"

(* C7: the remainder of a final is the final's words from index            *)
(* spoken_word_count on, in order; when there is such a word it is said in *)
(* one speak-action with interruptible false, and when spoken_word_count   *)
(* is at least the final's word count nothing is said.                     *)
C7_FinalRemainder ==
    [][ ev'.kind = "final" =>
          LET final_words == split(ev'.text)
              k == spoken_word_count
          IN  IF k >= Len(final_words)
              THEN out' = << >>
              ELSE /\ Len(out') = 1
                   /\ out'[1].interruptible = FALSE
                   /\ LET said == split(out'[1].text) IN
                      /\ Len(said) = Len(final_words) - k
                      /\ \A j \in 1..Len(said) : said[j] = final_words[k + j]
                   /\ out'[1].text = join(split(out'[1].text)) ]_vars

\* "x y z" arrived with two words spoken: "z" alone was said
C7_Witness ==
    /\ ev.kind = "final"
    /\ ev.text = join(<< X, Y, Z >>)
    /\ out = << SpeakAction(Z, FALSE) >>

(* C8: after a final has been handled the session is reset: the history is *)
(* empty, last_stable_source and translated_prefix are empty,              *)
(* spoken_word_count is 0 and both timestamps are None, with or without a  *)
(* remainder.                                                              *)
C8_ResetAfterFinal ==
    ev.kind = "final" =>
        /\ interim_history = << >>
        /\ last_stable_source = << >>
        /\ translated_prefix = << >>
        /\ spoken_word_count = 0
        /\ speech_start_time = None
        /\ first_audio_time = None

\* a final of two words with nothing left to say: two words were spoken
C8_Witness ==
    /\ ev.kind = "final"
    /\ ev.text = join(<< X, Y >>)
    /\ out = << >>

-----------------------------------------------------------------------------
(* The stability window of a history: its last stability_threshold         *)
(* observations, and whether all of them have word w at index i            *)

Window(history) ==
    { k \in 1..Len(history) : k > Len(history) - stability_threshold }

AllAgree(history, i, w) ==
    \A k \in Window(history) :
        /\ Len(split(history[k])) >= i
        /\ split(history[k])[i] = w

\* the stable prefix of the last observation recorded
CurrentStable ==
    get_stable_prefix(interim_history, interim_history[Len(interim_history)])

(* C9: with at least stability_threshold observations the stable prefix is *)
(* the longest run of the current text's words, from its first word, such  *)
(* that every observation of the window has that word at that index; it    *)
(* ends at the first index that fails, so with a threshold of 2 or more a  *)
(* word the observation before the last one does not have at its index is  *)
(* not stable. The backend call of the interim is issued for that prefix.  *)
C9_LongestAgreedPrefix ==
    Len(interim_history) >= stability_threshold =>
        LET n == Len(interim_history)
            words == split(interim_history[n])
            r == split(CurrentStable)
        IN  /\ CurrentStable = join(r)
            /\ Len(r) <= Len(words)
            /\ \A i \in 1..Len(r) :
                   r[i] = words[i] /\ AllAgree(interim_history, i, words[i])
            /\ Len(r) < Len(words) =>
                   ~AllAgree(interim_history, Len(r) + 1, words[Len(r) + 1])
            /\ stability_threshold >= 2 =>
                   \A i \in 1..Len(words) :
                       ( \/ Len(split(interim_history[n - 1])) < i
                         \/ split(interim_history[n - 1])[i] # words[i] )
                       => Len(r) < i
            /\ ev.kind = "start" =>
                   IF r = << >>
                   THEN tasks[ev.id].pc = "done"
                   ELSE /\ tasks[ev.id].pc = "awaiting"
                        /\ tasks[ev.id].current_source = join(r)

\* "a", "a b", "a b" with threshold 2: "a" at the second observation,
\* "a b" at the third
C9_Witness ==
    /\ stability_threshold = 2
    /\ interim_history = << A, join(<< A, B >>), join(<< A, B >>) >>
    /\ tasks[2].current_source = A
    /\ tasks[3].current_source = join(<< A, B >>)
    /\ ev = Step("start", 3, << >>)

\* the last stability_threshold observations are the same text
Repeated(history) ==
    /\ Len(history) >= stability_threshold
    /\ \A k \in Window(history) : history[k] = history[Len(history)]

(* C10: once a text has been observed stability_threshold times in a row   *)
(* its stable prefix is all the words of the text, and one more identical  *)
(* observation leaves the stable prefix the same.                          *)
C10_RepetitionIsIdempotent ==
    /\ [] ( Repeated(interim_history) =>
              /\ split(CurrentStable)
                     = split(interim_history[Len(interim_history)])
              /\ CurrentStable
                     = join(split(interim_history[Len(interim_history)])) )
    /\ [][ ( /\ ev'.kind = "start"
             /\ Repeated(interim_history)
             /\ tasks[ev'.id].text = interim_history[Len(interim_history)] )
           => ( /\ Repeated(interim_history')
                /\ CurrentStable' = CurrentStable ) ]_vars

\* "a  b" three times with threshold 2: "a b" is stable at the second
\* observation and again at the third
C10_Witness ==
    /\ stability_threshold = 2
    /\ interim_history = << A \o << SP, SP >> \o B,
                            A \o << SP, SP >> \o B,
                            A \o << SP, SP >> \o B >>
    /\ tasks[2].current_source = join(<< A, B >>)
    /\ tasks[3].current_source = join(<< A, B >>)
    /\ ev = Step("start", 3, << >>)

-----------------------------------------------------------------------------
(* The delta computer at work: one utterance in which every interim is     *)
(* stable at once (threshold 1) and a delta of one word is spoken, so that *)
(* a backend call is answered with a previous translation as its context.  *)

InitDelta ==
    /\ stability_threshold = 1
    /\ min_words_for_tts = 1
    /\ interim_history = << >>
    /\ last_stable_source = << >>
    /\ translated_prefix = << >>
    /\ spoken_word_count = 0
    /\ speech_start_time = None
    /\ first_audio_time = None
    /\ tasks = << >>
    /\ out = << >>
    /\ ev = Step("init", 0, << >>)
    /\ utt = 0
    /\ lastCommit = 0

NextDelta ==
    \/ \E transcript \in InterimTranscripts : on_transcribed_interim(transcript)
    \/ \E i \in 1..MaxInterims : process_interim_start(i)
    \/ \E i \in 1..MaxInterims, content \in Contents :
           process_interim_response(i, content)

SpecDelta == InitDelta /\ [][NextDelta]_vars

\* the words of an answer: its text without the quotes around it
ContentWords(content) == split(SelectSeq(content, LAMBDA c : c # QUOTE))

(* C11: the delta is the words of the full translation beyond the word     *)
(* count of the previous translation: for a previous translation of k      *)
(* words and a full translation of n words it is words k+1..n of the full  *)
(* translation, none when n <= k (so none for delta(prefix, prefix)) and   *)
(* all of them for an empty previous translation; the words a commit says  *)
(* are those last words of the translation it commits.                     *)
C11_DeltaBeyondPreviousWords ==
    /\ \A i \in 1..Len(tasks), content \in Contents :
           tasks[i].pc = "awaiting" =>
               LET prev == tasks[i].previous_translation
                   full == ContentWords(content)
                   k == Len(split(prev))
                   d == split(translate_delta(content, prev).delta)
               IN  /\ Len(d) = IF Len(full) > k THEN Len(full) - k ELSE 0
                   /\ \A j \in 1..Len(d) : d[j] = full[k + j]
                   /\ split(prev) = full => d = << >>
                   /\ prev = << >> => d = full
    /\ (ev.kind = "commit" /\ out # << >>) =>
           LET said == split(out[1].text)
               tp == split(translated_prefix)
           IN  /\ Len(said) <= Len(tp)
               /\ \A j \in 1..Len(said) :
                      said[j] = tp[Len(tp) - Len(said) + j]

\* "x y" was committed for "a", then "x y z" came for "a b": "z" is said
C11_Witness ==
    /\ ev.kind = "commit"
    /\ last_stable_source = join(<< A, B >>)
    /\ translated_prefix = join(<< X, Y, Z >>)
    /\ out = << SpeakAction(Z, TRUE) >>
    /\ spoken_word_count = 3

-----------------------------------------------------------------------------
\* p is a prefix, word by word, of s (or equal to it)
IsWordPrefix(p, s) ==
    /\ Len(p) <= Len(s)
    /\ \A j \in 1..Len(p) : p[j] = s[j]

(* C12: last_stable_source is a word-prefix of, or equal to, the stable    *)
(* prefix of the most recent interim observation.                          *)
C12_LastStableSourceIsPrefix ==
    interim_history # << >> =>
        IsWordPrefix(split(last_stable_source), split(CurrentStable))

-----------------------------------------------------------------------------
Blank(transcript) == split(transcript) = << >>

(* C13: an empty or whitespace-only transcript, interim or final, is a     *)
(* no-op: the handler returns without creating a task (no backend call),   *)
(* without a speak-action and without changing any session field; the      *)
(* history is not appended to and an empty final does not reset.           *)
C13_BlankTranscriptIsNoOp ==
    [][ \A transcript \in InterimTranscripts \cup FinalTranscripts :
            ( /\ Blank(transcript)
              /\ \/ on_transcribed_interim(transcript)
                 \/ on_transcribed_final(transcript) )
            => /\ out' = << >>
               /\ UNCHANGED << config, session, tasks, utt, lastCommit >> ]_vars

\* a whitespace-only final arrives after two words were said
C13_Witness ==
    /\ ev.kind = "final_empty"
    /\ utt = 0
    /\ spoken_word_count = 2
    /\ interim_history # << >>
    /\ translated_prefix # << >>

-----------------------------------------------------------------------------
(* C14: when the stable prefix computed for an interim is empty or equals  *)
(* last_stable_source, the interim's task ends without a backend call and  *)
(* without a speak-action; last_stable_source, translated_prefix and       *)
(* spoken_word_count keep their values and the only change to the session  *)
(* is the observation appended to interim_history.                         *)
C14_NothingNewIsNoOp ==
    [][ ev'.kind = "start" =>
            LET i == ev'.id
                text == tasks[i].text
                stable == get_stable_prefix(Append(interim_history, text), text)
            IN  (stable = << >> \/ stable = last_stable_source) =>
                    /\ tasks'[i].pc = "done"
                    /\ \A j \in 1..Len(tasks) : j # i => tasks'[j] = tasks[j]
                    /\ out' = << >>
                    /\ interim_history' = Append(interim_history, text)
                    /\ UNCHANGED << config, last_stable_source,
                                    translated_prefix, spoken_word_count,
                                    speech_start_time, first_audio_time >> ]_vars

\* the interim's stable prefix is the one already committed
C14_Witness ==
    /\ ev.kind = "start"
    /\ tasks[ev.id].pc = "done"
    /\ last_stable_source # << >>
    /\ CurrentStable = last_stable_source

-----------------------------------------------------------------------------
(* The session under every configuration the constructor accepts, up to    *)
(* the bounds: stability_threshold from 1, min_words_for_tts from 0.       *)

InitAnyConfig ==
    /\ stability_threshold \in 1..MaxThreshold
    /\ min_words_for_tts \in 0..MaxMinWords
    /\ interim_history = << >>
    /\ last_stable_source = << >>
    /\ translated_prefix = << >>
    /\ spoken_word_count = 0
    /\ speech_start_time = None
    /\ first_audio_time = None
    /\ tasks = << >>
    /\ out = << >>
    /\ ev = Step("init", 0, << >>)
    /\ utt = 0
    /\ lastCommit = 0

\* transcripts and answers; no speaking event and no failing call
NextAnyConfig ==
    \/ \E transcript \in InterimTranscripts : on_transcribed_interim(transcript)
    \/ \E transcript \in FinalTranscripts : on_transcribed_final(transcript)
    \/ \E i \in 1..MaxInterims : process_interim_start(i)
    \/ \E i \in 1..MaxInterims, content \in Contents :
           process_interim_response(i, content)

SpecAnyConfig == InitAnyConfig /\ [][NextAnyConfig]_vars

(* C15: every commit is matched by speech, whatever the configuration: a   *)
(* step of an interim's task that changes last_stable_source and           *)
(* translated_prefix emits an interruptible speak-action with a delta of   *)
(* at least one word and adds that number of words to spoken_word_count.   *)
C15_CommitMatchedBySpeech ==
    [][ ( /\ ev'.kind = "commit"
          /\ last_stable_source' # last_stable_source
          /\ translated_prefix' # translated_prefix )
        => /\ out' # << >>
           /\ out'[1].interruptible
           /\ Len(split(out'[1].text)) >= 1
           /\ spoken_word_count' =
                  spoken_word_count + Len(split(out'[1].text)) ]_vars

-----------------------------------------------------------------------------
\* fewer observations are recorded than the threshold asks for
ThinHistory == Len(interim_history) < stability_threshold

LastObservation == interim_history[Len(interim_history)]

(* C16: with fewer than stability_threshold observations recorded the      *)
(* stable prefix is empty when translated_prefix is empty and when no      *)
(* observation is recorded; it is the whole current text when              *)
(* translated_prefix is non-empty and an observation is recorded, and the  *)
(* interim's task then calls the backend for that whole text (unless it    *)
(* is the source already committed).                                       *)
C16_ThresholdRelaxation ==
    /\ \A transcript \in InterimTranscripts :
           get_stable_prefix(<< >>, strip(transcript)) = << >>
    /\ (ThinHistory /\ interim_history # << >>) =>
           /\ CurrentStable = IF translated_prefix = << >>
                              THEN << >> ELSE LastObservation
           /\ ev.kind = "start" =>
                  IF translated_prefix = << >>
                     \/ LastObservation = last_stable_source
                  THEN tasks[ev.id].pc = "done"
                  ELSE /\ tasks[ev.id].pc = "awaiting"
                       /\ tasks[ev.id].current_source = LastObservation

\* a commit came after the reset: the next utterance's first interim is
\* sent to the backend whole
C16_Witness ==
    /\ ev.kind = "start"
    /\ utt = 1
    /\ Len(interim_history) = 1
    /\ ThinHistory
    /\ translated_prefix # << >>
    /\ tasks[ev.id].pc = "awaiting"
    /\ tasks[ev.id].current_source = interim_history[1]
    /\ Len(split(interim_history[1])) = 2

-----------------------------------------------------------------------------
(* C18: once the final of an utterance has been handled, no delta of a     *)
(* backend call that was issued during that utterance is spoken: a delta   *)
(* is spoken in the utterance in which its call was issued, before the     *)
(* final's remainder is computed.                                          *)
C18_NoInterimSpeechAfterFinal ==
    [][ (ev'.kind = "commit" /\ out' # << >>)
            => tasks[ev'.id].call_utt = utt ]_vars

-----------------------------------------------------------------------------
(* C19: between handler steps spoken_word_count is the number of words of  *)
(* translated_prefix (min_words_for_tts is 2).                             *)
C19_SpokenCountIsPrefixLength ==
    spoken_word_count = Len(split(translated_prefix))

-----------------------------------------------------------------------------
(* C20: a non-empty translated_prefix comes with at least                  *)
(* stability_threshold observations in interim_history, so that the        *)
(* detector never returns the whole current text on a thin history.        *)
C20_PrefixImpliesFullHistory ==
    translated_prefix # << >> => Len(interim_history) >= stability_threshold

-----------------------------------------------------------------------------
(* The session with its scheduling: the event loop runs the first step of  *)
(* every task that on_transcribed created, and the handler of the final    *)
(* transcript runs when the recognizer delivers it. Nothing makes the      *)
(* backend answer: a call may stay unanswered forever. One utterance: the  *)
(* speaker says "a b", heard so in every interim, and the backend, when it *)
(* answers, answers "x y" or "x y z"; interims of the next utterance       *)
(* follow the final.                                                       *)

ScheduledInterims == { join(<< A, B >>) }
ScheduledFinals == { join(<< X, Y >>) }
ScheduledContents == { join(<< X, Y >>), join(<< X, Y, Z >>) }

\* the final of the utterance
FinalDelivered ==
    /\ utt = 0
    /\ \E transcript \in ScheduledFinals : on_transcribed_final(transcript)

NextScheduled ==
    \/ \E transcript \in ScheduledInterims : on_transcribed_interim(transcript)
    \/ FinalDelivered
    \/ \E i \in 1..MaxInterims : process_interim_start(i)
    \/ \E i \in 1..MaxInterims, content \in ScheduledContents :
           process_interim_response(i, content)

SpecScheduled ==
    /\ Init
    /\ [][NextScheduled]_vars
    /\ \A i \in 1..MaxInterims : WF_vars(process_interim_start(i))
    /\ WF_vars(FinalDelivered)

\* a backend call of a task before task i is unanswered
HungBefore(i) == \E j \in 1..(i - 1) : tasks[j].pc = "awaiting"

HungCall == \E j \in 1..Len(tasks) : tasks[j].pc = "awaiting"

\* the state a final's reset leaves
JustReset ==
    /\ ev.kind = "final"
    /\ interim_history = << >>
    /\ last_stable_source = << >>
    /\ translated_prefix = << >>
    /\ spoken_word_count = 0
    /\ speech_start_time = None
    /\ first_audio_time = None

(* C17: a backend call that is never answered does not starve the session: *)
(* an interim received while a call is unanswered is still processed (its  *)
(* task takes its first step, records the observation and may call the     *)
(* backend itself), and the utterance's final is still handled and followed*)
(* by the reset.                                                           *)
C17_HungCallDoesNotStarve ==
    /\ \A i \in 1..MaxInterims :
           (i <= Len(tasks) /\ tasks[i].pc = "created" /\ HungBefore(i))
               ~> (i <= Len(tasks) /\ tasks[i].pc # "created")
    /\ (HungCall /\ utt = 0) ~> JustReset

\* the second interim's call is still unanswered when the third interim's
\* answer commits and is said
C17_Witness ==
    /\ Len(tasks) = 3
    /\ tasks[2].pc = "awaiting"
    /\ ev.kind = "commit"
    /\ ev.id = 3
    /\ out # << >>
    /\ utt = 0

=============================================================================
